---- MODULE Spec2Model ----
(***************************************************************************)
(* TransformerTTS (src/model.py): the mask construction and output masking *)
(* of forward, the mask fields forward stores on the model object, and the *)
(* autoregressive inference loop with its gate-based stop.                 *)
(*                                                                         *)
(* Tensors are functions over 0-based index ranges, as in the code:        *)
(* a (N, L) tensor is [0..N-1 -> [0..L-1 -> value]].                       *)
(* The learned layers (prenets, attention blocks, linear heads, postnet)   *)
(* are not interpreted: what they compute at a position (n, t) is one of   *)
(* NetVals, chosen independently per position.  What attention may look at *)
(* is computed from the masks exactly as MultiheadAttention combines them. *)
(***************************************************************************)
EXTENDS Integers, Sequences, FiniteSets, TLC

\* ---------------------------------------------------------------- bounds
MaxN == 2          \* largest batch size N
MaxS == 2          \* largest padded text length S
MaxL == 2          \* largest padded mel length L of a forward batch
MelFreq == 1       \* number of mel bins F (hp.mel_freq), scaled down
MaxLength == 3     \* largest max_length argument of inference

\* ------------------------------------------------------------- constants
GateFill == 1000   \* the 1e3 written into padded gate logits
NegInf == -1000000000   \* stands for float("-inf"); AddMask keeps it absorbing

Invocations == {1, 2}

\* What linear_1, postnet and linear_2 produce at one position of a teacher-forced
\* batch: linear = linear_1(mel_x), postnet = postnet(mel_linear), gate = linear_2(mel_x).
NetVals ==
  { [linear |-> 1, postnet |-> 1, gate |-> 0],
    [linear |-> 0, postnet |-> 1, gate |-> 1000] }

\* The same during generation, with a third value whose gate logit saturates low.
InferenceNetVals ==
  NetVals \cup { [linear |-> 0, postnet |-> 2, gate |-> -1000] }

\* gate_threshold arguments, in thousandths: 0, 0.5, 1, 1.001 and the 1e3 of test_inference
Thresholds == {0, 500, 1000, 1001, 1000000}

Range(n) == 0 .. (n - 1)

VARIABLES
  \* fields forward stores on the model object (self.*)
  src_key_padding_mask, src_mask, tgt_key_padding_mask, tgt_mask, memory_mask,
  \* per forward invocation: position, arguments, what each block attended, result
  pc, args, enc_attn, dec_self_attn, dec_cross_attn, out,
  \* inference: loop state and locals
  inf_state, text_S, max_length, gate_threshold,
  mel_padded, mel_lengths, gate_outputs, mel_postnet, passes, last_gates, returned

maskVars == <<src_key_padding_mask, src_mask, tgt_key_padding_mask, tgt_mask, memory_mask>>
fwdVars == <<pc, args, enc_attn, dec_self_attn, dec_cross_attn, out>>
infVars == <<inf_state, text_S, max_length, gate_threshold,
             mel_padded, mel_lengths, gate_outputs, mel_postnet, passes, last_gates, returned>>
vars == <<maskVars, fwdVars, infVars>>

\* ------------------------------------------------------------ mask builders

\* pad_mask_utils.get_mask_from_sequence_lengths: True at positions below the length
get_mask_from_sequence_lengths(lengths, max_len) ==
  [n \in DOMAIN lengths |-> [j \in Range(max_len) |-> j < lengths[n]]]

\* the triangle with the diagonal included (diagonal=0)
Triu0(R, C) ==
  [i \in Range(R) |-> [j \in Range(C) |-> j - i >= 0]]

\* torch.triu(torch.full((R, C), True), diagonal=1)
Triu1(R, C) ==
  [i \in Range(R) |-> [j \in Range(C) |-> j - i >= 1]]

\* torch.zeros((N, W)).masked_fill(~get_mask_from_sequence_lengths(len, W), -inf)
KeyPaddingMask(lengths, W) ==
  LET keep == get_mask_from_sequence_lengths(lengths, W)
  IN  [n \in DOMAIN lengths |-> [j \in Range(W) |-> IF ~keep[n][j] THEN NegInf ELSE 0]]

\* torch.zeros((R, C)).masked_fill(triu, -inf)
TriuMask(R, C) ==
  LET upper == Triu1(R, C)
  IN  [i \in Range(R) |-> [j \in Range(C) |-> IF upper[i][j] THEN NegInf ELSE 0]]

\* a source mask that forbids nothing
SrcMask_open(S) == [i \in Range(S) |-> [j \in Range(S) |-> 0]]

\* a target padding mask that starts one position late
TgtKeyPaddingMask_late(mel_len, L) ==
  [n \in DOMAIN mel_len |-> [j \in Range(L) |-> IF j > mel_len[n] THEN NegInf ELSE 0]]

SrcKeyPaddingMask(text_len, S) == KeyPaddingMask(text_len, S)
SrcMask(S) == TriuMask(S, S)
TgtKeyPaddingMask(mel_len, L) == KeyPaddingMask(mel_len, L)
TgtMask(L) == TriuMask(L, L)
MemoryMask(L, S) == TriuMask(L, S)

\* ------------------------------------------------------------ attention

\* MultiheadAttention adds attn_mask (Q, K) and key_padding_mask (N, K)
AddMask(a, b) == IF a = NegInf \/ b = NegInf THEN NegInf ELSE a + b

\* the keys that keep a finite score, per batch row and query position
Attended(attn_mask, key_padding_mask) ==
  [n \in DOMAIN key_padding_mask |->
    [i \in DOMAIN attn_mask |->
      { j \in DOMAIN attn_mask[i] :
          AddMask(attn_mask[i][j], key_padding_mask[n][j]) = 0 }]]

\* ------------------------------------------------------------ output masking

NetOutputs(N, L, vals) == [Range(N) -> [Range(L) -> vals]]

\* The heads and the masked_fill calls are elementwise over (n, t, f); each is given
\* here at one element, and ForwardOutputs assembles the tensors.

\* the boolean mask taken with eq(0): the real frames instead of the padded ones
BoolMelMask_eq(tkpm, n, t, f) == tkpm[n][t] = 0

\* bool_mel_mask = self.tgt_key_padding_mask.ne(0).unsqueeze(-1).repeat(1, 1, hp.mel_freq)
BoolMelMask(tkpm, n, t, f) == tkpm[n][t] # 0

\* mel_linear = linear_1(mel_x)
RawMelLinear(y) == y.linear

\* mel_postnet = mel_linear + postnet(mel_linear)
RawMelPostnet(y) == y.linear + y.postnet

\* gate = linear_2(mel_x)
RawGate(y) == y.gate

\* x.masked_fill(bool_mel_mask, 0)
MaskedFillMel(x, masked) == IF masked THEN 0 ELSE x

\* gate.masked_fill(bool_mel_mask[:, :, 0].unsqueeze(-1), 1e3).squeeze(2)
MaskedFillGate(g, masked) == IF masked THEN GateFill ELSE g

\* the tuple forward returns, from the layers' values and the stored target padding mask
ForwardOutputs(net, tkpm) ==
  [mel_postnet |->
     [n \in DOMAIN net |-> [t \in DOMAIN net[n] |-> [f \in Range(MelFreq) |->
        MaskedFillMel(RawMelPostnet(net[n][t]), BoolMelMask(tkpm, n, t, f))]]],
   mel_linear |->
     [n \in DOMAIN net |-> [t \in DOMAIN net[n] |-> [f \in Range(MelFreq) |->
        MaskedFillMel(RawMelLinear(net[n][t]), BoolMelMask(tkpm, n, t, f))]]],
   gate |->
     [n \in DOMAIN net |-> [t \in DOMAIN net[n] |->
        MaskedFillGate(RawGate(net[n][t]), BoolMelMask(tkpm, n, t, 0))]]]

\* ------------------------------------------------------------ forward, step by step

Unset == <<>>     \* attribute not assigned yet
NoOut == <<>>     \* local not bound yet

\* batches as the collate function delivers them: lengths within the padded widths
Batches ==
  UNION { UNION { UNION {
    { [N |-> N, S |-> S, L |-> L, text_len |-> tl, mel_len |-> ml] :
        tl \in [Range(N) -> 1..S], ml \in [Range(N) -> 1..L] }
    : L \in 1..MaxL } : S \in 1..MaxS } : N \in 1..MaxN }

Goto(p, label) == pc' = [pc EXCEPT ![p] = label]

\* the call binds the arguments
Call(p, batch) ==
  /\ pc[p] = "idle"
  /\ args' = [args EXCEPT ![p] = batch]
  /\ Goto(p, "src_key_padding_mask")
  /\ UNCHANGED <<maskVars, enc_attn, dec_self_attn, dec_cross_attn, out, infVars>>

BuildSrcKeyPaddingMask(p) ==
  /\ pc[p] = "src_key_padding_mask"
  /\ src_key_padding_mask' = SrcKeyPaddingMask(args[p].text_len, args[p].S)
  /\ Goto(p, "src_mask")
  /\ UNCHANGED <<src_mask, tgt_key_padding_mask, tgt_mask, memory_mask,
                 args, enc_attn, dec_self_attn, dec_cross_attn, out, infVars>>

BuildSrcMask(p) ==
  /\ pc[p] = "src_mask"
  /\ src_mask' = SrcMask(args[p].S)
  /\ Goto(p, "tgt_key_padding_mask")
  /\ UNCHANGED <<src_key_padding_mask, tgt_key_padding_mask, tgt_mask, memory_mask,
                 args, enc_attn, dec_self_attn, dec_cross_attn, out, infVars>>

BuildTgtKeyPaddingMask(p) ==
  /\ pc[p] = "tgt_key_padding_mask"
  /\ tgt_key_padding_mask' = TgtKeyPaddingMask(args[p].mel_len, args[p].L)
  /\ Goto(p, "tgt_mask")
  /\ UNCHANGED <<src_key_padding_mask, src_mask, tgt_mask, memory_mask,
                 args, enc_attn, dec_self_attn, dec_cross_attn, out, infVars>>

BuildTgtMask(p) ==
  /\ pc[p] = "tgt_mask"
  /\ tgt_mask' = TgtMask(args[p].L)
  /\ Goto(p, "memory_mask")
  /\ UNCHANGED <<src_key_padding_mask, src_mask, tgt_key_padding_mask, memory_mask,
                 args, enc_attn, dec_self_attn, dec_cross_attn, out, infVars>>

BuildMemoryMask(p) ==
  /\ pc[p] = "memory_mask"
  /\ memory_mask' = MemoryMask(args[p].L, args[p].S)
  /\ Goto(p, "encoder_block_1")
  /\ UNCHANGED <<src_key_padding_mask, src_mask, tgt_key_padding_mask, tgt_mask,
                 args, enc_attn, dec_self_attn, dec_cross_attn, out, infVars>>

EncoderLabels == <<"encoder_block_1", "encoder_block_2", "encoder_block_3", "decoder_block_1">>
DecoderLabels == <<"decoder_block_1", "decoder_block_2", "decoder_block_3", "output">>

\* encoder_block_k(text_x, attn_mask = self.src_mask, key_padding_mask = self.src_key_padding_mask)
EncoderBlockStep(p, k) ==
  /\ pc[p] = EncoderLabels[k]
  /\ enc_attn' = [enc_attn EXCEPT ![p] = Append(@, Attended(src_mask, src_key_padding_mask))]
  /\ Goto(p, EncoderLabels[k + 1])
  /\ UNCHANGED <<maskVars, args, dec_self_attn, dec_cross_attn, out, infVars>>

\* decoder_block_k(x, memory, self.tgt_mask, self.tgt_key_padding_mask,
\*                 self.memory_mask, self.src_key_padding_mask)
DecoderBlockStep(p, k) ==
  /\ pc[p] = DecoderLabels[k]
  /\ dec_self_attn' = [dec_self_attn EXCEPT ![p] =
                         Append(@, Attended(tgt_mask, tgt_key_padding_mask))]
  /\ dec_cross_attn' = [dec_cross_attn EXCEPT ![p] =
                         Append(@, Attended(memory_mask, src_key_padding_mask))]
  /\ Goto(p, DecoderLabels[k + 1])
  /\ UNCHANGED <<maskVars, args, enc_attn, out, infVars>>

\* the heads, the masked_fill of the three outputs, and the return
Output(p) ==
  /\ pc[p] = "output"
  /\ \E net \in NetOutputs(args[p].N, args[p].L, NetVals) :
       out' = [out EXCEPT ![p] = ForwardOutputs(net, tgt_key_padding_mask)]
  /\ Goto(p, "done")
  /\ UNCHANGED <<maskVars, args, enc_attn, dec_self_attn, dec_cross_attn, infVars>>

ForwardStep(p) ==
  \/ BuildSrcKeyPaddingMask(p)
  \/ BuildSrcMask(p)
  \/ BuildTgtKeyPaddingMask(p)
  \/ BuildTgtMask(p)
  \/ BuildMemoryMask(p)
  \/ \E k \in 1..3 : EncoderBlockStep(p, k)
  \/ \E k \in 1..3 : DecoderBlockStep(p, k)
  \/ Output(p)

NotReturned == [status |-> "running", mel_postnet |-> <<>>, gate_outputs |-> <<>>]

NoArgs == [N |-> 0, S |-> 0, L |-> 0, text_len |-> <<>>, mel_len |-> <<>>]

InitModel ==
  /\ src_key_padding_mask = Unset
  /\ src_mask = Unset
  /\ tgt_key_padding_mask = Unset
  /\ tgt_mask = Unset
  /\ memory_mask = Unset
  /\ pc = [p \in Invocations |-> "idle"]
  /\ args = [p \in Invocations |-> NoArgs]
  /\ enc_attn = [p \in Invocations |-> <<>>]
  /\ dec_self_attn = [p \in Invocations |-> <<>>]
  /\ dec_cross_attn = [p \in Invocations |-> <<>>]
  /\ out = [p \in Invocations |-> NoOut]

InitNoInference ==
  /\ inf_state = "idle"
  /\ text_S = 0
  /\ max_length = 0
  /\ gate_threshold = 0
  /\ mel_padded = <<>>
  /\ mel_lengths = <<>>
  /\ gate_outputs = <<>>
  /\ mel_postnet = Unset
  /\ passes = 0
  /\ last_gates = <<>>
  /\ returned = NotReturned

\* a freshly constructed model and one caller of forward
Init == InitModel /\ InitNoInference

Next ==
  \/ pc[1] = "idle" /\ \E batch \in Batches : Call(1, batch)
  \/ ForwardStep(1)

Spec == Init /\ [][Next]_vars

\* two callers share the model object; both batches are padded to the same widths
ConcBatches == { b \in Batches : b.N = 1 /\ b.S = MaxS /\ b.L = MaxL }

NextConcurrent ==
  \E p \in Invocations :
    \/ pc[p] = "idle" /\ \E batch \in ConcBatches : Call(p, batch)
    \/ ForwardStep(p)

SpecConcurrent == Init /\ [][NextConcurrent]_vars

\* ------------------------------------------------------------ inference

\* torch.sigmoid on float32, in thousandths: exactly 0.0 at -1e3, 0.5 at 0, exactly 1.0 at 1e3
Sigmoid(x) ==
  CASE x <= -1000 -> 0
    [] x = 0 -> 500
    [] x >= 1000 -> 1000

\* the stop test with >= in place of >
GateFires_ge(g, threshold) == Sigmoid(g) >= threshold

\* the stop test on the raw logit, without the sigmoid
GateFires_logit(g, threshold) == g * 1000 > threshold

\* torch.sigmoid(gate[:, -1]) > gate_threshold
GateFires(g, threshold) == Sigmoid(g) > threshold

\* a loop that runs once more than max_length
LoopContinues_le(done_passes, max_len) == done_passes <= max_len

\* for _ in range(max_length)
LoopContinues(done_passes, max_len) == done_passes < max_len

TimeLen(x) == Cardinality(DOMAIN x[0])

\* SOS = torch.zeros((N, 1, hp.mel_freq)), N = 1
SOS == [n \in Range(1) |-> [t \in Range(1) |-> [f \in Range(MelFreq) |-> 0]]]

\* x[:, -1:, :]
LastSlice(x) == [n \in DOMAIN x |-> [t \in Range(1) |-> x[n][TimeLen(x) - 1]]]

\* torch.cat([a, b], dim=1)
CatTime(a, b) ==
  [n \in DOMAIN a |->
    [t \in Range(TimeLen(a) + TimeLen(b)) |->
      IF t < TimeLen(a) THEN a[n][t] ELSE b[n][t - TimeLen(a)]]]

\* the append without the [-1:] slice
AppendFrame_whole(buffer, postnet_out) == CatTime(buffer, postnet_out)

\* mel_padded = torch.cat([mel_padded, mel_postnet[:, -1:, :]], dim=1)
AppendFrame(buffer, postnet_out) == CatTime(buffer, LastSlice(postnet_out))

\* the log taking the first step's logit, gate[:, :1]
LogGate_first(logged, gate) == Append(logged, gate[0][0])

\* gate_outputs = torch.cat([gate_outputs, gate[:, -1:]], dim=1)
LogGate(logged, gate) == Append(logged, gate[0][Cardinality(DOMAIN gate[0]) - 1])

\* mel_lengths = torch.tensor(mel_padded.shape[1]).unsqueeze(0)
LengthOf(buffer) == [n \in Range(1) |-> TimeLen(buffer)]

\* return mel_postnet, gate_outputs; mel_postnet is unbound when the loop body never ran
ReturnValue(postnet_out, logged, done_passes) ==
  IF done_passes = 0
    THEN [status |-> "UnboundLocalError", mel_postnet |-> <<>>, gate_outputs |-> <<>>]
    ELSE [status |-> "value", mel_postnet |-> postnet_out, gate_outputs |-> logged]

\* one iteration of the loop: the forward call (which stores its masks on the
\* model), the append, the gate test, and either the break or the bookkeeping
InferencePass ==
  /\ inf_state = "GENERATING"
  /\ LoopContinues(passes, max_length)
  /\ LET text_lengths == [n \in Range(1) |-> text_S]
         L == TimeLen(mel_padded)
         tkpm == TgtKeyPaddingMask(mel_lengths, L)
     IN  /\ src_key_padding_mask' = SrcKeyPaddingMask(text_lengths, text_S)
         /\ src_mask' = SrcMask(text_S)
         /\ tgt_key_padding_mask' = tkpm
         /\ tgt_mask' = TgtMask(L)
         /\ memory_mask' = MemoryMask(L, text_S)
         /\ \E net \in NetOutputs(1, L, InferenceNetVals) :
              LET o == ForwardOutputs(net, tkpm)
                  g == o.gate[0][L - 1]
              IN  /\ mel_postnet' = o.mel_postnet
                  /\ mel_padded' = AppendFrame(mel_padded, o.mel_postnet)
                  /\ last_gates' = Append(last_gates, g)
                  /\ passes' = passes + 1
                  /\ IF GateFires(g, gate_threshold)
                       THEN /\ inf_state' = "STOPPED"
                            /\ UNCHANGED <<gate_outputs, mel_lengths>>
                       ELSE /\ inf_state' = "GENERATING"
                            /\ gate_outputs' = LogGate(gate_outputs, o.gate)
                            /\ mel_lengths' = LengthOf(mel_padded')
  /\ UNCHANGED <<fwdVars, text_S, max_length, gate_threshold, returned>>

\* range(max_length) is exhausted without a break
LoopExhausted ==
  /\ inf_state = "GENERATING"
  /\ ~LoopContinues(passes, max_length)
  /\ inf_state' = "TRUNCATED"
  /\ UNCHANGED <<maskVars, fwdVars, text_S, max_length, gate_threshold,
                 mel_padded, mel_lengths, gate_outputs, mel_postnet, passes, last_gates, returned>>

Return ==
  /\ inf_state \in {"STOPPED", "TRUNCATED"}
  /\ returned.status = "running"
  /\ returned' = ReturnValue(mel_postnet, gate_outputs, passes)
  /\ UNCHANGED <<maskVars, fwdVars, inf_state, text_S, max_length, gate_threshold,
                 mel_padded, mel_lengths, gate_outputs, mel_postnet, passes, last_gates>>

\* the state on entry to the loop, for every text length, max_length and gate_threshold
InitInference ==
  /\ InitModel
  /\ inf_state = "GENERATING"
  /\ text_S \in 1..MaxS
  /\ max_length \in 0..MaxLength
  /\ gate_threshold \in Thresholds
  /\ mel_padded = SOS
  /\ mel_lengths = [n \in Range(1) |-> 1]
  /\ gate_outputs = <<>>
  /\ mel_postnet = Unset
  /\ passes = 0
  /\ last_gates = <<>>
  /\ returned = NotReturned

NextInference == InferencePass \/ LoopExhausted \/ Return

SpecInference == InitInference /\ [][NextInference]_vars

\* the loop is plain sequential code: an enabled step is eventually taken
SpecInferenceFair == SpecInference /\ WF_vars(NextInference)

\* ------------------------------------------------------------ forward: properties

MasksBuilt == {"encoder_block_1", "encoder_block_2", "encoder_block_3",
               "decoder_block_1", "decoder_block_2", "decoder_block_3", "output", "done"}

\* C5: at every padded position (n, t), t >= mel_lengths[n], the returned mel_postnet
\* and mel_linear are zero in all F bins and the returned gate logit is the constant 1e3.
C5_PaddedOutputsMasked ==
  pc[1] = "done" =>
    \A n \in Range(args[1].N) : \A t \in Range(args[1].L) :
      t >= args[1].mel_len[n] =>
        /\ \A f \in Range(MelFreq) : out[1].mel_postnet[n][t][f] = 0
        /\ \A f \in Range(MelFreq) : out[1].mel_linear[n][t][f] = 0
        /\ out[1].gate[n][t] = 1000

\* a returned batch with a padded row whose real frames kept the layers' values
C5_Witness ==
  /\ pc[1] = "done"
  /\ \E n \in Range(args[1].N) :
       /\ args[1].mel_len[n] < args[1].L
       /\ out[1].mel_linear[n][0][0] # 0
       /\ out[1].mel_postnet[n][0][0] # 0
       /\ out[1].gate[n][0] # 1000

\* C6 as stated: the encoder blocks are restricted by padding only, so query i
\* attends every key j < text_lengths[n], also those with j > i.
C6_EncoderPaddingOnly ==
  \A k \in 1..Len(enc_attn[1]) :
    \A n \in Range(args[1].N) : \A i \in Range(args[1].S) :
      enc_attn[1][k][n][i] = { j \in Range(args[1].S) : j < args[1].text_len[n] }

\* C6 amended: the source self-mask is the strictly-upper-triangular (causal) mask,
\* so in each encoder block query i attends key j exactly when j <= i and
\* j < text_lengths[n].
C6_EncoderCausalAndPadding ==
  /\ pc[1] \in MasksBuilt =>
       \A i \in Range(args[1].S) : \A j \in Range(args[1].S) :
         (src_mask[i][j] = NegInf) = (j > i)
  /\ \A k \in 1..Len(enc_attn[1]) :
       \A n \in Range(args[1].N) : \A i \in Range(args[1].S) :
         enc_attn[1][k][n][i] =
           { j \in Range(args[1].S) : j <= i /\ j < args[1].text_len[n] }

\* all three encoder blocks ran on a row with a real key after query position 0
C6_Witness ==
  /\ Len(enc_attn[1]) = 3
  /\ \E n \in Range(args[1].N) : args[1].text_len[n] >= 2

\* C8: with all lengths >= 1 no attention query row is fully masked, in encoder
\* self-attention, decoder self-attention and decoder cross-attention.
C8_NoFullyMaskedRow ==
  /\ \A k \in 1..Len(enc_attn[1]) :
       \A n \in Range(args[1].N) : \A i \in Range(args[1].S) :
         enc_attn[1][k][n][i] # {}
  /\ \A k \in 1..Len(dec_self_attn[1]) :
       \A n \in Range(args[1].N) : \A i \in Range(args[1].L) :
         dec_self_attn[1][k][n][i] # {}
  /\ \A k \in 1..Len(dec_cross_attn[1]) :
       \A n \in Range(args[1].N) : \A i \in Range(args[1].L) :
         dec_cross_attn[1][k][n][i] # {}

\* all six blocks ran on a batch with a padded text row and a padded mel row
C8_Witness ==
  /\ Len(enc_attn[1]) = 3
  /\ Len(dec_self_attn[1]) = 3
  /\ Len(dec_cross_attn[1]) = 3
  /\ \E n \in Range(args[1].N) : args[1].text_len[n] < args[1].S
  /\ \E n \in Range(args[1].N) : args[1].mel_len[n] < args[1].L

\* C9: the L x L target mask is -inf on exactly the strictly-upper triangle, the
\* target padding mask is -inf on exactly the positions >= mel_lengths[n], and
\* decoder self-attention lets query i attend key j exactly when j <= i and
\* j < mel_lengths[n].
C9_DecoderSelfMask ==
  /\ pc[1] \in MasksBuilt =>
       /\ \A i \in Range(args[1].L) : \A j \in Range(args[1].L) :
            (tgt_mask[i][j] = NegInf) = (j > i)
       /\ \A n \in Range(args[1].N) : \A j \in Range(args[1].L) :
            /\ (tgt_key_padding_mask[n][j] = NegInf) = (j >= args[1].mel_len[n])
            /\ (tgt_key_padding_mask[n][j] = 0) = (j < args[1].mel_len[n])
  /\ \A k \in 1..Len(dec_self_attn[1]) :
       \A n \in Range(args[1].N) : \A i \in Range(args[1].L) :
         dec_self_attn[1][k][n][i] =
           { j \in Range(args[1].L) : j <= i /\ j < args[1].mel_len[n] }

\* the three decoder blocks ran on a batch where both the triangle and the padding bite
C9_Witness ==
  /\ Len(dec_self_attn[1]) = 3
  /\ args[1].L >= 2
  /\ \E n \in Range(args[1].N) : args[1].mel_len[n] < args[1].L
  /\ \E n \in Range(args[1].N) : args[1].mel_len[n] = args[1].L

\* ------------------------------------------------------------ inference: properties

ZeroFrame == [f \in Range(MelFreq) |-> 0]

\* the buffer without the frame appended last
ButLastFrame(buffer) ==
  [n \in DOMAIN buffer |-> [t \in Range(TimeLen(buffer) - 1) |-> buffer[n][t]]]

Exceeded(g) == Sigmoid(g) > gate_threshold

NeverExceeded == \A i \in 1..Len(last_gates) : ~Exceeded(last_gates[i])

\* pass k is the first whose last-step gate exceeds the threshold
FirstExceededOnLastPass ==
  /\ Len(last_gates) >= 1
  /\ Exceeded(last_gates[Len(last_gates)])
  /\ \A i \in 1..(Len(last_gates) - 1) : ~Exceeded(last_gates[i])

\* C1 as stated: when the gate never exceeds the threshold, the returned mel
\* sequence is the accumulated buffer, max_length+1 frames.
C1_ReturnsBuffer ==
  (returned.status = "value" /\ NeverExceeded) =>
    /\ inf_state = "TRUNCATED"
    /\ returned.mel_postnet = mel_padded
    /\ TimeLen(returned.mel_postnet) = max_length + 1

\* C1 amended: when the gate never exceeds the threshold (max_length >= 1) the loop
\* ends in TRUNCATED with max_length+1 frames in the buffer (the zero start frame plus
\* one per step), and what is returned is the last pass's mel_postnet: max_length
\* frames, the last of which is the frame appended last.
C1_TruncatedReturnsLastPostnet ==
  /\ (inf_state # "GENERATING" /\ NeverExceeded) =>
       /\ inf_state = "TRUNCATED"
       /\ passes = max_length
       /\ TimeLen(mel_padded) = max_length + 1
       /\ mel_padded[0][0] = ZeroFrame
  /\ (returned.status = "value" /\ NeverExceeded) =>
       /\ max_length >= 1
       /\ TimeLen(returned.mel_postnet) = max_length
       /\ returned.mel_postnet[0][max_length - 1] = mel_padded[0][max_length]
       /\ returned.mel_postnet = mel_postnet

\* the test's shape: three passes without a stop, three frames returned
C1_Witness ==
  /\ returned.status = "value"
  /\ inf_state = "TRUNCATED"
  /\ max_length = 3
  /\ TimeLen(returned.mel_postnet) = 3
  /\ TimeLen(mel_padded) = 4

\* C2 as stated: on a stop at pass k the returned mel sequence is the buffer without
\* the frame appended on pass k (zero start frame, then the frames of passes 1..k-1).
C2_ReturnsBufferWithoutLast ==
  (returned.status = "value" /\ inf_state = "STOPPED") =>
    returned.mel_postnet = ButLastFrame(mel_padded)

\* C2 amended: when the gate first exceeds the threshold on pass k no further pass is
\* run, the buffer holds the zero start frame and the k appended frames, and what is
\* returned is pass k's mel_postnet: k frames, the last of which is the frame
\* appended on pass k.
C2_StoppedReturnsLastPostnet ==
  /\ inf_state = "STOPPED" =>
       /\ FirstExceededOnLastPass
       /\ passes = Len(last_gates)
       /\ TimeLen(mel_padded) = passes + 1
       /\ mel_padded[0][0] = ZeroFrame
  /\ (Len(last_gates) >= 1 /\ Exceeded(last_gates[Len(last_gates)])) => inf_state = "STOPPED"
  /\ (returned.status = "value" /\ inf_state = "STOPPED") =>
       /\ TimeLen(returned.mel_postnet) = passes
       /\ returned.mel_postnet[0][passes - 1] = mel_padded[0][passes]
       /\ returned.mel_postnet = mel_postnet

\* a stop on the second pass, returned
C2_Witness ==
  /\ returned.status = "value"
  /\ inf_state = "STOPPED"
  /\ passes = 2
  /\ max_length = 3

\* C3: with gate_threshold above 1 the stop branch is never taken: exactly max_length
\* passes are made and the loop ends in TRUNCATED.
C3_ThresholdAboveOneTruncates ==
  gate_threshold > 1000 =>
    /\ inf_state # "STOPPED"
    /\ passes <= max_length
    /\ Len(gate_outputs) = passes
    /\ inf_state = "TRUNCATED" => passes = max_length
    /\ returned.status # "running" => (inf_state = "TRUNCATED" /\ passes = max_length)

\* threshold just above 1, every pass saw a saturated gate (sigmoid = 1.0), none stopped
C3_Witness ==
  /\ gate_threshold = 1001
  /\ inf_state = "TRUNCATED"
  /\ max_length = 3
  /\ passes = 3
  /\ \A i \in 1..3 : last_gates[i] = 1000

\* C4: for every threshold and gate sequence the loop makes at most max_length passes,
\* the buffer never holds more than max_length+1 frames, and the loop ends, STOPPED or
\* TRUNCATED.
C4_BoundedAndTerminates ==
  /\ [](/\ passes <= max_length
        /\ TimeLen(mel_padded) <= max_length + 1
        /\ TimeLen(mel_padded) = passes + 1
        /\ inf_state \in {"GENERATING", "STOPPED", "TRUNCATED"})
  /\ <>(inf_state \in {"STOPPED", "TRUNCATED"} /\ returned.status # "running")

\* the cap was hit with the buffer full, and the call returned
C4_Witness ==
  /\ inf_state = "TRUNCATED"
  /\ passes = max_length
  /\ max_length = MaxLength
  /\ TimeLen(mel_padded) = max_length + 1
  /\ returned.status = "value"

\* C10: gate_outputs holds, in step order, the last-step gate logit of exactly the
\* passes whose gate did not exceed the threshold (k-1 entries on a stop at pass k,
\* max_length entries when TRUNCATED), and before every forward pass the mel length
\* passed to forward is the buffer length, passes + 1.
C10_GateLog ==
  /\ gate_outputs = SelectSeq(last_gates, LAMBDA g : ~Exceeded(g))
  /\ inf_state = "STOPPED" => Len(gate_outputs) = passes - 1
  /\ inf_state = "TRUNCATED" => Len(gate_outputs) = max_length
  /\ inf_state = "GENERATING" =>
       /\ mel_lengths[0] = TimeLen(mel_padded)
       /\ mel_lengths[0] = passes + 1
  /\ returned.status = "value" => returned.gate_outputs = gate_outputs

\* two different logits logged in order, then a stop on the third pass
C10_Witness ==
  /\ returned.status = "value"
  /\ inf_state = "STOPPED"
  /\ passes = 3
  /\ returned.gate_outputs = <<-1000, 0>>

\* ------------------------------------------------------------ concurrent forward: properties

\* C7: two forward invocations on one model object share no mutable state: whatever
\* the interleaving, each invocation's attention and output masking follow its own
\* text_len and mel_len, and nothing per-call stays stored on the model afterwards.
C7_NoSharedState ==
  /\ \A p \in Invocations :
       /\ \A k \in 1..Len(enc_attn[p]) : \A i \in Range(args[p].S) :
            enc_attn[p][k][0][i] =
              { j \in Range(args[p].S) : j <= i /\ j < args[p].text_len[0] }
       /\ \A k \in 1..Len(dec_self_attn[p]) : \A i \in Range(args[p].L) :
            dec_self_attn[p][k][0][i] =
              { j \in Range(args[p].L) : j <= i /\ j < args[p].mel_len[0] }
       /\ \A k \in 1..Len(dec_cross_attn[p]) : \A i \in Range(args[p].L) :
            dec_cross_attn[p][k][0][i] =
              { j \in Range(args[p].S) : j <= i /\ j < args[p].text_len[0] }
       /\ pc[p] = "done" =>
            \A t \in Range(args[p].L) :
              /\ (out[p].mel_postnet[0][t][0] = 0) = (t >= args[p].mel_len[0])
              /\ t >= args[p].mel_len[0] =>
                   (out[p].mel_linear[0][t][0] = 0 /\ out[p].gate[0][t] = 1000)
  /\ (\A p \in Invocations : pc[p] = "done") =>
       /\ src_key_padding_mask = Unset
       /\ src_mask = Unset
       /\ tgt_key_padding_mask = Unset
       /\ tgt_mask = Unset
       /\ memory_mask = Unset

====
